---- MODULE Spec2Model ----
(***************************************************************************)
(* A model of effective_quadratures/polynomial.py: the tensor quadrature   *)
(* assembly, the multivariate basis evaluation, the pseudospectral         *)
(* coefficient computation, the sparse-grid merge and the Kronecker        *)
(* multiplication.  Reals are modelled by integers: every collaborator     *)
(* value (nodes, weights, eigenvector entries, function values) is an      *)
(* integer, so that sums and products are exact.                           *)
(***************************************************************************)
EXTENDS Integers, Sequences, FiniteSets, TLC

VARIABLES
    pc,               \* position / outcome of the call in progress
    uq_parameters,    \* Polynomial.uq_parameters
    index_sets,       \* Polynomial.index_sets
    function,         \* the user callable handed to the coefficient routines
    override_orders,  \* argument of getPointsAndWeights
    stackOfPoints,    \* argument of getMultivariatePolynomial
    Q,                \* argument of efficient_kron_mult
    Uc,               \* argument of efficient_kron_mult (mutated in place)
    Uc0,              \* the content of Uc when the call began
    ret,              \* what the finished call returned
    calls,            \* the points the user function was called at, in order
    store,            \* getSparsePseudospectralCoefficients: working collection
    final_store,      \* getSparsePseudospectralCoefficients: merged entries
    points_saved,     \* getSparsePseudospectralCoefficients: sampled points
    counter,          \* getSparsePseudospectralCoefficients: merged entries so far
    sum_indices       \* getSparsePseudospectralCoefficients: concatenated entries

vars == <<pc, uq_parameters, index_sets, function, override_orders,
          stackOfPoints, Q, Uc, Uc0, ret, calls, store, final_store,
          points_saved, counter, sum_indices>>

\* -------------------------------------------------------------------------
\* Bounds of the model
\* -------------------------------------------------------------------------
MaxDim == 2
MaxOrder == 2
MaxComponents == 2
MaxLevel == 1

\* Python's None: for a list argument the empty list stands for it (no call of
\* the model passes an empty list), for a record the record without content.
None == <<>>
Nothing == [kind |-> "none"]

\* -------------------------------------------------------------------------
\* Arithmetic on sequences and matrices (a matrix is a sequence of rows)
\* -------------------------------------------------------------------------
RECURSIVE Prod(_)
Prod(s) == IF s = <<>> THEN 1 ELSE Head(s) * Prod(Tail(s))

RECURSIVE Sum(_)
Sum(s) == IF s = <<>> THEN 0 ELSE Head(s) + Sum(Tail(s))

Rows(A) == Len(A)
Cols(A) == IF Len(A) = 0 THEN 0 ELSE Len(A[1])

\* numpy.kron of two 2-D arrays
Kron(A, B) ==
    [r \in 1..(Rows(A) * Rows(B)) |->
        [c \in 1..(Cols(A) * Cols(B)) |->
            A[((r - 1) \div Rows(B)) + 1][((c - 1) \div Cols(B)) + 1]
          * B[((r - 1) % Rows(B)) + 1][((c - 1) % Cols(B)) + 1]]]

\* Digit k (1-based) of row r read as a mixed-radix number whose radices are
\* the orders, the first parameter being the slowest digit.
Digit(orders, r, k) ==
    (((r - 1) \div Prod(SubSeq(orders, k + 1, Len(orders)))) % orders[k]) + 1

Ones(n) == [r \in 1..n |-> <<1>>]

\* numpy.concatenate(..., axis = 1)
ConcatColumns(A, B) == [r \in 1..Rows(A) |-> A[r] \o B[r]]

\* -------------------------------------------------------------------------
\* The collaborators: Parameter (parameter.py)
\* -------------------------------------------------------------------------
ParamKinds ==
    { [param_type |-> "Uniform",  lower |-> -2, upper |-> 2],
      [param_type |-> "Beta",     lower |-> 1,  upper |-> 4],
      [param_type |-> "Gaussian", lower |-> 0,  upper |-> 0],
      [param_type |-> "Custom",   lower |-> 3,  upper |-> 5] }

UniformKind == CHOOSE k \in ParamKinds : k.param_type = "Uniform"

Parameter(kind, order, flag) ==
    [param_type |-> kind.param_type, lower |-> kind.lower, upper |-> kind.upper,
     order |-> order, derivative_flag |-> flag]

\* Parameter.getLocalQuadrature(order): `order` nodes (a column) and weights.
\* Node j of an n-point rule is 2j - n - 1 and its weight is j: the nodes of
\* one rule are distinct, and so are its weights.
getLocalQuadrature(param, order) ==
    [local_points  |-> [j \in 1..order |-> <<2 * j - order - 1>>],
     local_weights |-> [j \in 1..order |-> j]]

\* -------------------------------------------------------------------------
\* Polynomial.getPointsAndWeights
\* -------------------------------------------------------------------------
OrdersOf(params, override) ==
    IF override = None THEN [i \in 1..Len(params) |-> params[i].order]
    ELSE override

\* The rescaling of one coordinate to the Parameter's domain.  The bounded
\* uniform kinds of ParamKinds have an even width, so the halving is exact.
Rescale(param, x) ==
    IF param.param_type = "Uniform"
    THEN ((x + 1) * (param.upper - param.lower)) \div 2 + param.lower
    ELSE IF param.param_type = "Beta"
    THEN x * (param.upper - param.lower) + param.lower
    ELSE x

\* The loop with the operands of each Kronecker product exchanged.
RECURSIVE TensorLoopExchanged(_, _, _, _, _)
TensorLoopExchanged(params, orders, u, pp, ww) ==
    IF u > Len(params) THEN [pp |-> pp, ww |-> ww]
    ELSE LET lq         == getLocalQuadrature(params[u], orders[u])
             dummy_vec  == Ones(Len(lq.local_points))
             dummy_vec2 == Ones(Len(pp))
             left_side  == Kron(dummy_vec, pp)
             right_side == Kron(lq.local_points, dummy_vec2)
         IN  TensorLoopExchanged(params, orders, u + 1,
                        ConcatColumns(left_side, right_side),
                        Kron(<<lq.local_weights>>, ww))

\* One turn of the loop over the dimensions: the state is <<pp, ww>>.
RECURSIVE TensorLoop(_, _, _, _, _)
TensorLoop(params, orders, u, pp, ww) ==
    IF u > Len(params) THEN [pp |-> pp, ww |-> ww]
    ELSE LET lq         == getLocalQuadrature(params[u], orders[u])
             dummy_vec  == Ones(Len(lq.local_points))
             dummy_vec2 == Ones(Len(pp))
             left_side  == Kron(pp, dummy_vec)
             right_side == Kron(dummy_vec2, lq.local_points)
         IN  TensorLoop(params, orders, u + 1,
                        ConcatColumns(left_side, right_side),
                        Kron(ww, <<lq.local_weights>>))

getPointsAndWeights(params, override) ==
    LET orders == OrdersOf(params, override)
        t      == TensorLoop(params, orders, 1, <<<<1>>>>, <<<<1>>>>)
        raw    == [r \in 1..Len(t.pp) |-> Tail(t.pp[r])]
    IN  [kind    |-> "quadrature",
         points  |-> [r \in 1..Len(raw) |->
                        [i \in 1..Len(params) |-> Rescale(params[i], raw[r][i])]],
         weights |-> t.ww[1]]

\* -------------------------------------------------------------------------
\* Inputs
\* -------------------------------------------------------------------------
RECURSIVE SeqsOfLen(_, _)
SeqsOfLen(S, n) ==
    IF n = 0 THEN {<<>>}
    ELSE {Append(s, x) : s \in SeqsOfLen(S, n - 1), x \in S}

SeqsUpTo(S, lo, hi) == UNION {SeqsOfLen(S, n) : n \in lo..hi}

\* -------------------------------------------------------------------------
\* Specification of getPointsAndWeights
\* -------------------------------------------------------------------------
QuadParameters ==
    SeqsUpTo({Parameter(k, o, 0) : k \in ParamKinds, o \in 1..MaxOrder}, 1, MaxDim)

InitQuad ==
    /\ pc = "start"
    /\ uq_parameters \in QuadParameters
    /\ override_orders \in {None} \cup SeqsOfLen(1..MaxOrder, Len(uq_parameters))
    /\ index_sets = Nothing
    /\ function = "none"
    /\ stackOfPoints = <<>>
    /\ Q = <<>>
    /\ Uc = <<>>
    /\ Uc0 = <<>>
    /\ ret = Nothing
    /\ calls = <<>>
    /\ store = <<>>
    /\ final_store = <<>>
    /\ points_saved = <<>>
    /\ counter = 0
    /\ sum_indices = 0

Call_getPointsAndWeights ==
    /\ pc = "start"
    /\ ret' = getPointsAndWeights(uq_parameters, override_orders)
    /\ pc' = "done"
    /\ UNCHANGED <<uq_parameters, index_sets, function, override_orders,
                   stackOfPoints, Q, Uc, Uc0, calls, store, final_store,
                   points_saved, counter, sum_indices>>

NextQuad == Call_getPointsAndWeights

SpecQuad == InitQuad /\ [][NextQuad]_vars

QuadOrders == OrdersOf(uq_parameters, override_orders)

\* C4: getPointsAndWeights returns o1*...*od points and as many weights; row r
\* is the row-major tensor combination (first parameter slowest): column k is
\* the rescaled node Digit(r, k) of dimension k, the weight is the product of
\* the weights Digit(r, k), and every combination of nodes is one row exactly.
C4_TensorGridRowMajor ==
    (pc = "done" /\ ret.kind = "quadrature") =>
        LET d  == Len(uq_parameters)
            gn == Prod(QuadOrders)
            lq(k) == getLocalQuadrature(uq_parameters[k], QuadOrders[k])
        IN  /\ Len(ret.points) = gn
            /\ Len(ret.weights) = gn
            /\ \A r \in 1..gn :
                  /\ Len(ret.points[r]) = d
                  /\ \A k \in 1..d :
                        ret.points[r][k] =
                          Rescale(uq_parameters[k],
                                  lq(k).local_points[Digit(QuadOrders, r, k)][1])
                  /\ ret.weights[r] =
                        Prod([k \in 1..d |->
                                lq(k).local_weights[Digit(QuadOrders, r, k)]])
            /\ \A combo \in {c \in SeqsOfLen(1..MaxOrder, d) :
                                \A k \in 1..d : c[k] <= QuadOrders[k]} :
                  Cardinality({r \in 1..gn :
                      \A k \in 1..d :
                          ret.points[r][k] =
                            Rescale(uq_parameters[k],
                                    lq(k).local_points[combo[k]][1])}) = 1

\* A 2 x 2 grid of a uniform and a beta parameter has been assembled from the
\* stored orders.
C4_Witness ==
    /\ pc = "done"
    /\ ret.kind = "quadrature"
    /\ override_orders = None
    /\ Len(uq_parameters) = 2
    /\ uq_parameters[1].order = 2
    /\ uq_parameters[2].order = 2
    /\ uq_parameters[1].param_type = "Uniform"
    /\ uq_parameters[2].param_type = "Beta"
    /\ Len(ret.points) = 4

\* Overridden orders: a 2 x 2 grid although the stored orders are 1.
C4_WitnessOverride ==
    /\ pc = "done"
    /\ ret.kind = "quadrature"
    /\ override_orders = <<2, 2>>
    /\ uq_parameters[1].order = 1
    /\ Len(ret.points) = 4

\* -------------------------------------------------------------------------
\* efficient_kron_mult
\* -------------------------------------------------------------------------
\* The positions (1-based) of block b of a sweep: indices_required.
indices_required(ni, nright, b) ==
    LET k      == b \div nright
        j      == b % nright
        index1 == k * (ni * nright) + j
    IN  [t \in 1..ni |-> index1 + (t - 1) * nright + 1]

\* The loops over k and j of one dimension, block after block; a block that
\* reaches past the buffer raises (IndexError) and leaves the buffer as the
\* earlier blocks made it.
RECURSIVE KronBlocks(_, _, _, _, _)
KronBlocks(Qi, nright, nblocks, b, U) ==
    IF b >= nblocks THEN [raised |-> FALSE, Uc |-> U]
    ELSE LET idx == indices_required(Len(Qi), nright, b)
         IN  IF \E t \in 1..Len(idx) : idx[t] > Len(U)
             THEN [raised |-> TRUE, Uc |-> U]
             ELSE KronBlocks(Qi, nright, nblocks, b + 1,
                    [x \in 1..Len(U) |->
                        IF \E t \in 1..Len(idx) : idx[t] = x
                        THEN LET t == CHOOSE t \in 1..Len(idx) : idx[t] = x
                             IN  Sum([c \in 1..Len(idx) |-> Qi[t][c] * U[idx[c]]])
                        ELSE U[x]])

\* The sweep that never updates nleft and nright between the dimensions.
RECURSIVE KronSweepStale(_, _, _, _, _)
KronSweepStale(Qs, i, nleft, nright, U) ==
    IF i < 1 THEN [raised |-> FALSE, Uc |-> U]
    ELSE LET pass == KronBlocks(Qs[i], nright, nleft * nright, 0, U)
         IN  IF pass.raised THEN pass
             ELSE KronSweepStale(Qs, i - 1, nleft, nright, pass.Uc)

\* The loop over the dimensions, from the last to the first.
RECURSIVE KronSweep(_, _, _, _, _)
KronSweep(Qs, i, nleft, nright, U) ==
    IF i < 1 THEN [raised |-> FALSE, Uc |-> U]
    ELSE LET pass     == KronBlocks(Qs[i], nright, nleft * nright, 0, U)
             temp_val == IF i = 1 THEN Len(Qs) ELSE i - 1
         IN  IF pass.raised THEN pass
             ELSE KronSweep(Qs, i - 1, nleft \div Len(Qs[temp_val]),
                            nright * Len(Qs[i]), pass.Uc)

efficient_kron_mult(Qs, U) ==
    LET N     == Len(Qs)
        nleft == Prod([i \in 1..(N - 1) |-> Len(Qs[i])])
    IN  KronSweep(Qs, N, nleft, 1, U)

\* The explicitly built Kronecker product Q[0] (x) Q[1] (x) ... (x) Q[d-1].
RECURSIVE FullKron(_)
FullKron(Qs) ==
    IF Len(Qs) = 1 THEN Qs[1] ELSE Kron(Qs[1], FullKron(Tail(Qs)))

MatVec(M, v) == [r \in 1..Rows(M) |-> Sum([c \in 1..Cols(M) |-> M[r][c] * v[c]])]

\* -------------------------------------------------------------------------
\* The collaborators: Parameter.getJacobiEigenvectors, IndexSet, the callable
\* -------------------------------------------------------------------------
\* Parameter.getJacobiEigenvectors(order): a square matrix of `order` rows,
\* here the numbers 1..order^2 written row by row (no two entries equal).
getJacobiEigenvectors(param, order) ==
    [r \in 1..order |-> [c \in 1..order |-> (r - 1) * order + c]]

\* IndexSet('Tensor grid', orders).getIndexSet(): every multi-index i with
\* 0 <= i[k] <= orders[k], one row each, the first dimension the slowest.
TensorGridIndexSet(orders) ==
    LET sizes == [k \in 1..Len(orders) |-> orders[k] + 1]
    IN  [r \in 1..Prod(sizes) |->
            [k \in 1..Len(orders) |-> Digit(sizes, r, k) - 1]]

\* The user's callable, named by `function`, at one point.
FunctionIds == {"affine", "square"}

Evaluate(f, pt) ==
    IF f = "affine" THEN 1 + Sum([k \in 1..Len(pt) |-> k * pt[k]])
    ELSE Sum([k \in 1..Len(pt) |-> pt[k] * pt[k]]) + pt[1]

\* -------------------------------------------------------------------------
\* getPseudospectralCoefficients
\* -------------------------------------------------------------------------
\* The loop that collects Q and q0 (lines 300-320).
RECURSIVE q0Loop(_, _, _, _)
q0Loop(params, orders, i, q0) ==
    IF i > Len(params) THEN q0
    ELSE LET Qmatrix == getJacobiEigenvectors(params[i], orders[i])
         IN  q0Loop(params, orders, i + 1,
                    IF orders[i] = 1 THEN Kron(q0, Qmatrix)
                    ELSE Kron(q0, <<Qmatrix[1]>>))

\* The buffer after the allocation and the write of u0 at index 1 (the
\* second position); with a single grid point that position does not exist.
Prewrite(gn, u0) ==
    [raised |-> gn < 2, Uc |-> [j \in 1..gn |-> IF j = 2 THEN u0 ELSE 0]]

\* The points the callable is evaluated at by the loop of lines 337-338.
EvaluationLoop(p, gn) == [i \in 1..gn |-> p[i]]

getPseudospectralCoefficients(params, f, override) ==
    LET orders == OrdersOf(params, override)
        Qs     == [i \in 1..Len(params) |->
                     getJacobiEigenvectors(params[i], orders[i])]
        q0     == q0Loop(params, orders, 1, <<<<1>>>>)
        p      == getPointsAndWeights(params, override).points
        fun_value_first_point == Evaluate(f, p[1])
        u0     == q0[1][1] * fun_value_first_point
        gn     == Prod(orders)
        pre    == Prewrite(gn, u0)
        evaluated       == EvaluationLoop(p, gn)
        function_values == [i \in 1..gn |-> Evaluate(f, p[i])]
        scaled == [j \in 1..Len(pre.Uc) |->
                     IF j <= gn THEN q0[1][j] * function_values[j] ELSE pre.Uc[j]]
        tensor_set == TensorGridIndexSet([i \in 1..Len(orders) |-> orders[i] - 1])
        kron   == efficient_kron_mult(Qs, scaled)
    IN  IF pre.raised
        THEN [raised |-> TRUE, calls |-> <<p[1]>>]
        ELSE IF kron.raised
        THEN [raised |-> TRUE, calls |-> <<p[1]>> \o evaluated]
        ELSE [raised |-> FALSE, calls |-> <<p[1]>> \o evaluated,
              K |-> kron.Uc, tensor_set |-> tensor_set, p |-> p,
              Q |-> Qs, q0 |-> q0[1], Uc_handed |-> scaled]

\* What a finished call of getPseudospectralCoefficients returns.
Returned(r) ==
    [kind |-> "coefficients", K |-> r.K, indexset |-> r.tensor_set,
     evaled_pts |-> r.p]

\* -------------------------------------------------------------------------
\* Specification of efficient_kron_mult
\* -------------------------------------------------------------------------
\* Square matrices of size n: every matrix with a single entry 1, and two
\* dense matrices that are neither symmetric nor of equal rows.
Elementary(n, r0, c0) ==
    [r \in 1..n |-> [c \in 1..n |-> IF r = r0 /\ c = c0 THEN 1 ELSE 0]]

Dense(n, s) == [r \in 1..n |-> [c \in 1..n |-> ((s + 2 * r + 3 * c + r * c) % 5) - 2]]

SquareMatrices(n) ==
    {Elementary(n, r0, c0) : r0 \in 1..n, c0 \in 1..n} \cup {Dense(n, s) : s \in 0..1}

KronMatrices == UNION {SquareMatrices(n) : n \in 1..MaxOrder}

SizeOf(Qs) == Prod([i \in 1..Len(Qs) |-> Len(Qs[i])])

\* Buffers of length L: the first and the last unit vector and two dense ones.
Buffers(L) ==
    {[x \in 1..L |-> IF x = 1 THEN 1 ELSE 0],
     [x \in 1..L |-> IF x = L THEN 1 ELSE 0],
     [x \in 1..L |-> x],
     [x \in 1..L |-> ((x * x) % 3) - 1]}

InitKron ==
    /\ pc = "start"
    /\ Q \in SeqsUpTo(KronMatrices, 1, MaxDim)
    /\ Uc \in Buffers(SizeOf(Q))
               \cup {[x \in 1..L |-> x] : L \in {SizeOf(Q) - 1, SizeOf(Q) + 1}}
    /\ Uc0 = Uc
    /\ uq_parameters = <<>>
    /\ override_orders = None
    /\ index_sets = Nothing
    /\ function = "none"
    /\ stackOfPoints = <<>>
    /\ ret = Nothing
    /\ calls = <<>>
    /\ store = <<>>
    /\ final_store = <<>>
    /\ points_saved = <<>>
    /\ counter = 0
    /\ sum_indices = 0

Call_efficient_kron_mult ==
    /\ pc = "start"
    /\ LET r == efficient_kron_mult(Q, Uc)
       IN  /\ Uc' = r.Uc
           /\ pc' = IF r.raised THEN "raised" ELSE "done"
           /\ ret' = IF r.raised THEN Nothing ELSE [kind |-> "kron", Uc |-> r.Uc]
    /\ UNCHANGED <<uq_parameters, index_sets, function, override_orders,
                   stackOfPoints, Q, Uc0, calls, store, final_store,
                   points_saved, counter, sum_indices>>

NextKron == Call_efficient_kron_mult

SpecKron == InitKron /\ [][NextKron]_vars

\* C2: for square matrices Q[0..d-1] and a buffer whose length is the product
\* of their row counts, efficient_kron_mult returns the product of the
\* explicitly built Kronecker matrix with the buffer.
C2_KronMultEqualsExplicit ==
    (pc \in {"done", "raised"} /\ Len(Uc0) = SizeOf(Q)) =>
        /\ pc = "done"
        /\ ret.kind = "kron"
        /\ ret.Uc = MatVec(FullKron(Q), Uc0)

\* Two different dense matrices have been applied to a dense buffer, and the
\* outcome is not the one of the two matrices exchanged.
C2_Witness ==
    /\ pc = "done"
    /\ Q = <<Dense(2, 0), Dense(2, 1)>>
    /\ Uc0 = <<1, 2, 3, 4>>
    /\ ret.Uc # MatVec(FullKron(<<Q[2], Q[1]>>), Uc0)

\* C7: a buffer whose length differs from the product of the row counts ends
\* the call in an error; no buffer is returned.
C7_WrongLengthRaises ==
    (pc \in {"done", "raised"} /\ Len(Uc0) # SizeOf(Q)) => pc = "raised"

\* -------------------------------------------------------------------------
\* getSparsePseudospectralCoefficients
\* -------------------------------------------------------------------------
\* utils.find_repeated_elements(index, matrix): the rows of the matrix whose
\* multi-index (every column but the first) equals the one of row `index`.
find_repeated_elements(index, matrix) ==
    LET hits == {j \in 1..Len(matrix) : Tail(matrix[j]) = Tail(matrix[index])}
        RECURSIVE Ascending(_, _)
        Ascending(j, acc) ==
            IF j > Len(matrix) THEN acc
            ELSE Ascending(j + 1, IF j \in hits THEN Append(acc, j) ELSE acc)
    IN  Ascending(1, <<>>)

\* A deletion that spares the picked row: only the other matches are removed.
DeleteOtherMatches(matrix, rep) ==
    LET RECURSIVE Kept(_, _)
        Kept(j, acc) ==
            IF j > Len(matrix) THEN acc
            ELSE Kept(j + 1,
                      IF \E i \in 2..Len(rep) : rep[i] = j
                      THEN acc ELSE Append(acc, matrix[j]))
    IN  Kept(1, <<>>)

\* numpy.delete(matrix, rep, axis = 0)
Delete(matrix, rep) ==
    LET rows == SelectSeq([j \in 1..Len(matrix) |-> j],
                          LAMBDA j : \A i \in 1..Len(rep) : rep[i] # j)
    IN  [k \in 1..Len(rows) |-> matrix[rows[k]]]

\* The first loop (lines 376-382): one tensor solve per component, at the
\* orders of the component plus one.
RECURSIVE ComponentLoop(_, _, _, _, _)
ComponentLoop(params, f, sparse_indices, i, acc) ==
    IF i > Len(sparse_indices) \/ acc.raised THEN acc
    ELSE LET orders == [k \in 1..Len(sparse_indices[i]) |-> sparse_indices[i][k] + 1]
             r      == getPseudospectralCoefficients(params, f, orders)
         IN  ComponentLoop(params, f, sparse_indices, i + 1,
                [raised |-> r.raised,
                 calls  |-> acc.calls \o r.calls,
                 parts  |-> IF r.raised THEN acc.parts ELSE Append(acc.parts, r)])

\* The rows of component i in `store` (lines 389-392).
StoreRows(part, factor) ==
    [j \in 1..Len(part.tensor_set) |-> <<factor * part.K[j]>> \o part.tensor_set[j]]

RECURSIVE Concatenate(_)
Concatenate(seqs) ==
    IF seqs = <<>> THEN <<>> ELSE Head(seqs) \o Concatenate(Tail(seqs))

\* The points written at the row j of their own component instead of the
\* running row: later components overwrite the first rows, the rest stay 0.
PointsSavedByComponentRow(parts, dimensions) ==
    [r \in 1..Len(Concatenate([i \in 1..Len(parts) |-> parts[i].tensor_set])) |->
        IF \E i \in 1..Len(parts) : r <= Len(parts[i].tensor_set)
        THEN LET i == CHOOSE i \in 1..Len(parts) :
                        /\ r <= Len(parts[i].tensor_set)
                        /\ \A l \in (i + 1)..Len(parts) : r > Len(parts[l].tensor_set)
             IN  parts[i].p[r]
        ELSE [d \in 1..dimensions |-> 0]]

\* points_saved after the second loop (lines 386-394).
PointsSaved(parts, dimensions) ==
    Concatenate([i \in 1..Len(parts) |->
        [j \in 1..Len(parts[i].tensor_set) |->
            [d \in 1..dimensions |-> parts[i].p[j][d]]]])

\* The sum of the coefficients of the rows named by rep (lines 409-414).
coefficient_value(matrix, rep) == Sum([i \in 1..Len(rep) |-> matrix[rep[i]][1]])

\* The picked row alone, the matched rows ignored.
StoredEntryOverwriting(matrix, index_to_pick, rep) ==
    <<matrix[index_to_pick][1]>> \o Tail(matrix[index_to_pick])

\* The entry written to final_store (lines 417-418).
StoredEntry(matrix, index_to_pick, rep) ==
    <<coefficient_value(matrix, rep)>> \o Tail(matrix[index_to_pick])

\* The last row of what is left.
index_of_last == Len(store)

\* The row picked by the loop is always the first of what is left (line 398).
index_to_pick == 1

\* -------------------------------------------------------------------------
\* Specification of getPolynomialCoefficients
\* -------------------------------------------------------------------------
CoeffKinds == {k \in ParamKinds : k.param_type \in {"Uniform", "Gaussian"}}

IndexSet(type, sparse_indices, sparse_factors) ==
    [index_set_type |-> type, sparse_indices |-> sparse_indices,
     sparse_factors |-> sparse_factors]

\* The combination weights of the components.
Factors == {-1, 1}

SparseDims == {1, 2}

InitCoeff ==
    /\ pc = "start"
    /\ \/ /\ function \in FunctionIds
          /\ \E k \in CoeffKinds :
               uq_parameters \in
                 SeqsUpTo({Parameter(k, o, 0) : o \in 1..MaxOrder}, 1, MaxDim)
          /\ index_sets \in {IndexSet(t, <<>>, <<>>) : t \in {"Tensor grid", "Total order"}}
       \/ \E d \in SparseDims, n \in 0..MaxComponents :
            /\ function = "affine"
            /\ uq_parameters = [i \in 1..d |-> Parameter(UniformKind, 1, 0)]
            /\ index_sets \in
                 {IndexSet("Sparse grid", si, sf) :
                    si \in SeqsOfLen(SeqsOfLen(0..MaxLevel, d), n),
                    sf \in {w \in SeqsOfLen(Factors, n) : n > 0 => w[1] = 1}}
    /\ override_orders = None
    /\ stackOfPoints = <<>>
    /\ Q = <<>>
    /\ Uc = <<>>
    /\ Uc0 = <<>>
    /\ ret = Nothing
    /\ calls = <<>>
    /\ store = <<>>
    /\ final_store = <<>>
    /\ points_saved = <<>>
    /\ counter = 0
    /\ sum_indices = 0

method == index_sets.index_set_type

SparseLocals == <<store, final_store, points_saved, counter, sum_indices>>

\* One call of getPseudospectralCoefficients(self, function) and what it
\* leaves: the calls of the user function, the arguments of the Kronecker
\* multiplication, the returned triple.
PseudospectralCall(next) ==
    \E r \in {getPseudospectralCoefficients(uq_parameters, function, None)} :
        /\ calls' = calls \o r.calls
        /\ IF r.raised
           THEN /\ pc' = "raised"
                /\ UNCHANGED <<Q, Uc, Uc0, ret>>
           ELSE /\ pc' = next
                /\ Q' = r.Q
                /\ Uc0' = r.Uc_handed
                /\ Uc' = r.K
                /\ ret' = Returned(r)

\* Lines 254-255: the branch of "Tensor grid".
TensorBranch ==
    /\ pc = "start"
    /\ method = "Tensor grid"
    /\ PseudospectralCall("second_if")
    /\ UNCHANGED <<uq_parameters, index_sets, function, override_orders,
                   stackOfPoints, SparseLocals>>

SkipTensorBranch ==
    /\ pc = "start"
    /\ method # "Tensor grid"
    /\ pc' = "second_if"
    /\ UNCHANGED <<uq_parameters, index_sets, function, override_orders,
                   stackOfPoints, Q, Uc, Uc0, ret, calls, SparseLocals>>

\* Lines 258-260: the else of the second if, which a "Tensor grid" reaches too.
ElseBranch ==
    /\ pc = "second_if"
    /\ method # "Sparse grid"
    /\ PseudospectralCall("done")
    /\ UNCHANGED <<uq_parameters, index_sets, function, override_orders,
                   stackOfPoints, SparseLocals>>

\* Lines 256-257 and 363-404: the components are solved and concatenated.
SparseCollect ==
    /\ pc = "second_if"
    /\ method = "Sparse grid"
    /\ \E all \in {ComponentLoop(uq_parameters, function, index_sets.sparse_indices, 1,
                                  [raised |-> FALSE, calls |-> <<>>, parts |-> <<>>])} :
       \E filled \in {Concatenate([i \in 1..Len(all.parts) |->
                          StoreRows(all.parts[i], index_sets.sparse_factors[i])])} :
         LET rows == Len(index_sets.sparse_indices)
         IN  IF rows = 0
             THEN /\ pc' = "raised"
                  /\ UNCHANGED <<Q, Uc, Uc0, calls, SparseLocals>>
             ELSE IF all.raised
             THEN /\ pc' = "raised"
                  /\ calls' = calls \o all.calls
                  /\ UNCHANGED <<Q, Uc, Uc0, SparseLocals>>
             ELSE /\ pc' = "merge"
                  /\ calls' = calls \o all.calls
                  /\ Q' = all.parts[rows].Q
                  /\ Uc0' = all.parts[rows].Uc_handed
                  /\ Uc' = all.parts[rows].K
                  /\ sum_indices' = Len(filled)
                  /\ store' = filled
                  /\ points_saved' = PointsSaved(all.parts, Len(uq_parameters))
                  /\ final_store' =
                       [i \in 1..Len(filled) |-> [c \in 1..(Len(uq_parameters) + 1) |-> 0]]
                  /\ counter' = 0
    /\ UNCHANGED <<uq_parameters, index_sets, function, override_orders,
                   stackOfPoints, ret>>

\* Lines 405-427: one turn of the while loop.
MergeStep ==
    /\ pc = "merge"
    /\ \E rep \in {find_repeated_elements(index_to_pick, store)} :
       \E rest \in {Delete(store, rep)} :
           /\ final_store' = [final_store EXCEPT
                                ![counter + 1] = StoredEntry(store, index_to_pick, rep)]
           /\ counter' = counter + 1
           /\ store' = rest
           /\ pc' = IF Len(rest) = 0 THEN "split" ELSE "merge"
    /\ UNCHANGED <<uq_parameters, index_sets, function, override_orders,
                   stackOfPoints, Q, Uc, Uc0, ret, calls, points_saved, sum_indices>>

\* Lines 429-446 and 260: the unused rows are dropped, the result is split.
SparseReturn ==
    /\ pc = "split"
    /\ LET kept == SubSeq(final_store, 1, counter)
       IN  /\ final_store' = kept
           /\ ret' = [kind |-> "coefficients",
                      K |-> [i \in 1..Len(kept) |-> kept[i][1]],
                      indexset |-> [i \in 1..Len(kept) |-> Tail(kept[i])],
                      evaled_pts |-> points_saved]
    /\ pc' = "done"
    /\ UNCHANGED <<uq_parameters, index_sets, function, override_orders,
                   stackOfPoints, Q, Uc, Uc0, calls, store, points_saved,
                   counter, sum_indices>>

NextCoeff ==
    \/ TensorBranch
    \/ SkipTensorBranch
    \/ ElseBranch
    \/ SparseCollect
    \/ MergeStep
    \/ SparseReturn

SpecCoeff == InitCoeff /\ [][NextCoeff]_vars

\* -------------------------------------------------------------------------
\* Properties of getPolynomialCoefficients
\* -------------------------------------------------------------------------
TensorOrders == [i \in 1..Len(uq_parameters) |-> uq_parameters[i].order]

\* C3: on a tensor-grid Polynomial the user function is called once per
\* quadrature point: as many calls as grid points, no point twice.
C3_OneCallPerPoint ==
    (pc = "done" /\ method = "Tensor grid") =>
        /\ Len(calls) = Prod(TensorOrders)
        /\ \A a, b \in 1..Len(calls) : a # b => calls[a] # calls[b]

\* C9: for every order vector of orders >= 1, the all-ones vector included,
\* the tensor solve completes, the buffer handed to the Kronecker
\* multiplication holds q0[j] * f(p[j]) at every j, and the coefficient vector
\* has one entry per row of the returned index set.
C9_CompletesForEveryOrderVector ==
    (pc \in {"done", "raised"} /\ method # "Sparse grid") =>
        /\ pc = "done"
        /\ LET p  == getPointsAndWeights(uq_parameters, None).points
               q0 == q0Loop(uq_parameters, TensorOrders, 1, <<<<1>>>>)[1]
           IN  Uc0 = [j \in 1..Prod(TensorOrders) |-> q0[j] * Evaluate(function, p[j])]
        /\ Len(ret.K) = Len(ret.indexset)

\* The tensor solves of the components of the sparse grid, each at the orders
\* of the component plus one.
SparseParts ==
    [i \in 1..Len(index_sets.sparse_indices) |->
        getPseudospectralCoefficients(uq_parameters, function,
            [k \in 1..Len(index_sets.sparse_indices[i]) |->
                index_sets.sparse_indices[i][k] + 1])]

\* The multi-indices of all component entries.
MultiIndicesOf(parts) ==
    UNION {{parts[i].tensor_set[j] : j \in 1..Len(parts[i].tensor_set)} :
             i \in 1..Len(parts)}

\* The sum of weight x coefficient over the component entries that carry m.
WeightedSum(parts, m) ==
    Sum([i \in 1..Len(parts) |->
           Sum([j \in 1..Len(parts[i].tensor_set) |->
                  IF parts[i].tensor_set[j] = m
                  THEN index_sets.sparse_factors[i] * parts[i].K[j] ELSE 0])])

SparseDone == pc = "done" /\ method = "Sparse grid"

\* C1: the output of getSparsePseudospectralCoefficients holds each
\* multi-index at most once, as many entries as there are distinct
\* multi-indices among the component entries, and for each the sum of
\* weight x coefficient over the component entries that carry it.
C1_MergedCoefficientsAreSums ==
    SparseDone =>
        \A parts \in {SparseParts} :
        \A carried \in {MultiIndicesOf(parts)} :
            /\ \A a, b \in 1..Len(ret.indexset) :
                   a # b => ret.indexset[a] # ret.indexset[b]
            /\ Len(ret.K) = Cardinality(carried)
            /\ Len(ret.indexset) = Len(ret.K)
            /\ \A a \in 1..Len(ret.K) :
                   /\ ret.indexset[a] \in carried
                   /\ ret.K[a] = WeightedSum(parts, ret.indexset[a])

\* Two overlapping components of weights +1 and -1 have been merged: the
\* multi-index (0, 0) is carried by both, and its coefficient is their
\* difference.
C1_Witness ==
    /\ SparseDone
    /\ index_sets.sparse_indices = <<<<1, 0>>, <<0, 1>>>>
    /\ index_sets.sparse_factors = <<1, -1>>
    /\ Len(ret.K) = 3
    /\ ret.indexset[1] = <<0, 0>>
    /\ \A parts \in {SparseParts} :
           /\ ret.K[1] = parts[1].K[1] - parts[2].K[1]
           /\ parts[1].K[1] # 0
           /\ parts[2].K[1] # 0

\* C5: when the merge has no entries at all, the call returns an empty
\* coefficient set without raising.
C5_EmptyMergeReturnsEmpty ==
    (pc \in {"done", "raised"} /\ method = "Sparse grid"
       /\ Len(index_sets.sparse_indices) = 0) =>
        /\ pc = "done"
        /\ ret.K = <<>>

\* The position, in the concatenated list `all` of multi-indices, of the first
\* entry that carries m.
FirstOccurrence(all, m) ==
    CHOOSE n \in 1..Len(all) :
        /\ all[n] = m
        /\ \A l \in 1..(n - 1) : all[l] # m

\* C8: the merged entries are in the order of the first occurrence of their
\* multi-index in the concatenated component list.
C8_FirstOccurrenceOrder ==
    SparseDone =>
        \A parts \in {SparseParts} :
        \A all \in {Concatenate([i \in 1..Len(parts) |-> parts[i].tensor_set])} :
            \A a, b \in 1..Len(ret.indexset) :
                a < b => FirstOccurrence(all, ret.indexset[a])
                           < FirstOccurrence(all, ret.indexset[b])

\* a comes before b in the lexicographic order of multi-indices.
LexLess(a, b) ==
    \E k \in 1..Len(a) :
        /\ a[k] < b[k]
        /\ \A l \in 1..(k - 1) : a[l] = b[l]

\* A merged output that is not sorted by index: (1, 0) comes before (0, 1).
C8_Witness ==
    /\ SparseDone
    /\ index_sets.sparse_indices = <<<<1, 0>>, <<0, 1>>>>
    /\ \E a, b \in 1..Len(ret.indexset) :
           /\ a < b
           /\ LexLess(ret.indexset[b], ret.indexset[a])

\* C10 as claimed: the returned points are one row per merged coefficient, and
\* row i was sampled for an entry that carries the output multi-index i.
C10_OnePointPerMergedEntry ==
    SparseDone =>
        \A parts \in {SparseParts} :
            /\ Len(ret.evaled_pts) = Len(ret.K)
            /\ \A a \in 1..Len(ret.K) :
                   \E i \in 1..Len(parts) :
                       \E j \in 1..Len(parts[i].tensor_set) :
                           /\ parts[i].tensor_set[j] = ret.indexset[a]
                           /\ parts[i].p[j] = ret.evaled_pts[a]

\* C10 as amended: the returned points are all sampled points, one row per
\* concatenated component entry, row n the point of the n-th entry of the
\* concatenation (the grids of the components, each at its orders plus one,
\* one after the other); it has one row per merged coefficient exactly when no
\* multi-index is carried by two entries.
C10_AllSampledPointsReturned ==
    SparseDone =>
        \A grids \in {[i \in 1..Len(index_sets.sparse_indices) |->
                         getPointsAndWeights(uq_parameters,
                            [k \in 1..Len(index_sets.sparse_indices[i]) |->
                                index_sets.sparse_indices[i][k] + 1]).points]} :
            /\ ret.evaled_pts = Concatenate(grids)
            /\ Len(ret.evaled_pts) = sum_indices
            /\ Len(ret.evaled_pts) >= Len(ret.K)
            /\ (Len(ret.evaled_pts) = Len(ret.K))
                 <=> (Cardinality(MultiIndicesOf(SparseParts)) = Len(Concatenate(grids)))

\* Two components that share multi-indices have been merged: more points are
\* returned than coefficients.
C10_Witness ==
    /\ SparseDone
    /\ index_sets.sparse_indices = <<<<1, 1>>, <<0, 1>>>>
    /\ Len(ret.evaled_pts) = 6
    /\ Len(ret.K) = 4

\* -------------------------------------------------------------------------
\* The merge loop (lines 398-427)
\* -------------------------------------------------------------------------
\* The code runs the loop to its end: a turn that can be taken is taken.
SpecCoeffFair == InitCoeff /\ [][NextCoeff]_vars /\ WF_vars(MergeStep)

\* One turn of the loop removes the picked row among the matches, leaves
\* strictly fewer rows, and writes one more merged entry.
MergeTurnShrinks ==
    MergeStep =>
        /\ \E i \in 1..Len(find_repeated_elements(index_to_pick, store)) :
               find_repeated_elements(index_to_pick, store)[i] = index_to_pick
        /\ Len(store') < Len(store)
        /\ counter' = counter + 1
        /\ counter' <= sum_indices

\* The loop is running exactly while rows are left, and it has stopped exactly
\* when none is.
MergeStopsWhenEmpty ==
    /\ pc = "merge" => (Len(store) > 0 /\ counter + Len(store) <= sum_indices)
    /\ pc \in {"split", "done"} /\ method = "Sparse grid" =>
           (Len(store) = 0 /\ counter >= 1 /\ counter <= sum_indices)

\* C11: the merge loop terminates for every non-empty working collection:
\* each turn removes at least the picked row (the matches always contain it),
\* so the rows left strictly decrease; the loop runs at most as many times as
\* there are concatenated entries, and it stops exactly when no row is left.
C11_MergeLoopTerminates ==
    /\ [][MergeTurnShrinks]_vars
    /\ []MergeStopsWhenEmpty
    /\ (pc = "merge") ~> (pc = "split" /\ Len(store) = 0)

\* The loop has stopped after more than one turn, one of which removed more
\* than one row: fewer merged entries than concatenated entries.
C11_Witness ==
    /\ pc = "split"
    /\ Len(store) = 0
    /\ counter > 1
    /\ counter < sum_indices

\* -------------------------------------------------------------------------
\* Polynomial.getMultivariatePolynomial
\* -------------------------------------------------------------------------
RECURSIVE Power(_, _)
Power(x, n) == IF n = 0 THEN 1 ELSE x * Power(x, n - 1)

\* numpy.mat([0]), the empty result
empty == <<<<0>>>>

\* Parameter.getOrthoPoly(points, order): the values of the polynomials of
\* degree 0..order-1 at the points, one row per degree (here the monomials),
\* and their derivatives, or the empty result when the Parameter's
\* derivative_flag is not set.
getOrthoPoly(param, points, order) ==
    [poly |-> [deg \in 1..order |-> [n \in 1..Len(points) |-> Power(points[n], deg - 1)]],
     derivatives |->
        IF param.derivative_flag = 1
        THEN [deg \in 1..order |->
                [n \in 1..Len(points) |->
                    IF deg = 1 THEN 0 ELSE (deg - 1) * Power(points[n], deg - 2)]]
        ELSE empty]

MaxOf(S) == CHOOSE x \in S : \A y \in S : y <= x

\* The index set of a Polynomial built without one (lines 37-43).
DefaultIndexSet(params) ==
    TensorGridIndexSet([i \in 1..Len(params) |-> params[i].order])

\* Lines 196-200: one row per multi-index, the product over the dimensions.
polynomial(p, index_set, no_of_points) ==
    [i \in 1..Len(index_set) |->
        [n \in 1..no_of_points |->
            Prod([k \in 1..Len(p) |-> p[k].poly[index_set[i][k] + 1][n]])]]

\* Lines 207-229: for dimension j, row i is the derivative in dimension j
\* times the values in the remaining dimensions.  A row of the derivatives
\* that does not exist (the empty result has one row) raises.
C_all(p, index_set, no_of_points) ==
    [j \in 1..Len(p) |->
        [i \in 1..Len(index_set) |->
            IF index_set[i][j] + 1 > Len(p[j].derivatives)
            THEN <<>>
            ELSE [n \in 1..no_of_points |->
                    p[j].derivatives[index_set[i][j] + 1][
                        IF Len(p[j].derivatives[index_set[i][j] + 1]) = 1 THEN 1 ELSE n]
                  * Prod([k \in 1..Len(p) |->
                            IF k = j THEN 1 ELSE p[k].poly[index_set[i][k] + 1][n]])]]]

getMultivariatePolynomial(params, points, index_set) ==
    LET dimensions == Len(params)
        p == [i \in 1..dimensions |->
                getOrthoPoly(params[i],
                             [n \in 1..Len(points) |-> points[n][i]],
                             MaxOf({index_set[r][i] + 1 : r \in 1..Len(index_set)}))]
        one == getOrthoPoly(params[1], [n \in 1..Len(points) |-> points[n][1]],
                            params[1].order)
        C == C_all(p, index_set, Len(points))
    IN  IF dimensions = 1 /\ params[1].derivative_flag = 0
        THEN [raised |-> FALSE, polynomial |-> one.poly,
              derivatives |-> [is_empty |-> TRUE, C_all |-> <<>>]]
        ELSE IF dimensions = 1 /\ params[1].derivative_flag = 1
        THEN [raised |-> FALSE, polynomial |-> one.poly,
              derivatives |-> [is_empty |-> FALSE, C_all |-> <<one.derivatives>>]]
        ELSE IF params[1].derivative_flag = 1
        THEN IF \E j \in 1..dimensions : \E i \in 1..Len(index_set) : C[j][i] = <<>>
             THEN [raised |-> TRUE]
             ELSE [raised |-> FALSE,
                   polynomial |-> polynomial(p, index_set, Len(points)),
                   derivatives |-> [is_empty |-> FALSE, C_all |-> C]]
        ELSE [raised |-> FALSE,
              polynomial |-> polynomial(p, index_set, Len(points)),
              derivatives |-> [is_empty |-> TRUE, C_all |-> <<>>]]

\* -------------------------------------------------------------------------
\* Specification of getMultivariatePolynomial
\* -------------------------------------------------------------------------
Coordinates == {-1, 2}

MaxPoints == 2

InitBasis ==
    /\ pc = "start"
    /\ uq_parameters \in
         SeqsUpTo({Parameter(UniformKind, o, fl) : o \in 1..MaxOrder, fl \in {0, 1}},
                  1, MaxDim)
    /\ stackOfPoints \in SeqsUpTo(SeqsOfLen(Coordinates, Len(uq_parameters)), 1, MaxPoints)
    /\ index_sets = IndexSet("Tensor grid", <<>>, <<>>)
    /\ function = "none"
    /\ override_orders = None
    /\ Q = <<>>
    /\ Uc = <<>>
    /\ Uc0 = <<>>
    /\ ret = Nothing
    /\ calls = <<>>
    /\ store = <<>>
    /\ final_store = <<>>
    /\ points_saved = <<>>
    /\ counter = 0
    /\ sum_indices = 0

Call_getMultivariatePolynomial ==
    /\ pc = "start"
    /\ \E r \in {getMultivariatePolynomial(uq_parameters, stackOfPoints,
                                           DefaultIndexSet(uq_parameters))} :
         IF r.raised
         THEN pc' = "raised" /\ ret' = ret
         ELSE /\ pc' = "done"
              /\ ret' = [kind |-> "basis", polynomial |-> r.polynomial,
                         derivatives |-> r.derivatives]
    /\ UNCHANGED <<uq_parameters, index_sets, function, override_orders,
                   stackOfPoints, Q, Uc, Uc0, calls, SparseLocals>>

NextBasis == Call_getMultivariatePolynomial

SpecBasis == InitBasis /\ [][NextBasis]_vars

\* C6: the per-dimension derivative structure is returned whenever at least
\* one Parameter, in any position of the list, has its derivative flag set,
\* and the empty result only when none has.
C6_DerivativesWheneverRequested ==
    (pc = "done" /\ ret.kind = "basis") =>
        (ret.derivatives.is_empty
           <=> \A i \in 1..Len(uq_parameters) : uq_parameters[i].derivative_flag = 0)

====
